---- MODULE Spec2Model ----
(***************************************************************************)
(* The sharewood agent registry server (src/server/main.go): a REST facade *)
(* over a Consul agent.  The model has the registry (services and their    *)
(* TTL checks), the requests in flight with their position in the          *)
(* middleware chain and handler, and the codec between an Agent and a      *)
(* registry service record.                                                *)
(*                                                                         *)
(* Strings that the code joins or splits are sequences of atoms, the atom  *)
(* "," being the separator; every other string is an opaque TLA+ string.   *)
(***************************************************************************)
EXTENDS Integers, Sequences, FiniteSets, TLC

\* ------------------------------------------------------------------ bounds
\* longest tags sequence of an Agent given to the codec
MaxTags == 2
\* longest tags sequence of an Agent in a request body
MaxReqTags == 1
\* longest allow-list given to authorize
MaxAllowed == 2

\* ------------------------------------------------------------------- texts
Comma == ","

\* the reserved classification tag
AIAgentTag == <<"ai-agent">>

\* the empty string
EmptyText == <<>>

RECURSIVE Join(_)
\* strings.Join(arr, ",")
Join(arr) ==
  IF Len(arr) = 0 THEN EmptyText
  ELSE IF Len(arr) = 1 THEN arr[1]
  ELSE arr[1] \o <<Comma>> \o Join(Tail(arr))

RECURSIVE Split(_)
\* strings.Split(str, ","): always at least one element
Split(str) ==
  IF \A i \in 1..Len(str) : str[i] # Comma THEN <<str>>
  ELSE LET i == CHOOSE k \in 1..Len(str) :
                  str[k] = Comma /\ \A j \in 1..(k-1) : str[j] # Comma
       IN <<SubSeq(str, 1, i-1)>> \o Split(SubSeq(str, i+1, Len(str)))

encodeArrayToString(arr) ==
  IF Len(arr) = 0 THEN EmptyText ELSE Join(arr)

decodeStringToArray(str) ==
  IF str = EmptyText THEN <<>> ELSE Split(str)

\* --------------------------------------------------------------- time.Time
\* an instant: whole seconds since the zero instant, and nanoseconds
ZeroTime == [sec |-> 0, nsec |-> 0]

IsZero(t) == t.sec = 0 /\ t.nsec = 0

\* a string found under the "expiration" metadata key
EmptyStamp == [layout |-> "empty", sec |-> 0]
GarbageStamp == [layout |-> "garbage", sec |-> 0]

\* t.Format(time.RFC3339): the layout has no fractional seconds
FormatRFC3339(t) == [layout |-> "RFC3339", sec |-> t.sec]

\* time.Parse(time.RFC3339, val)
ParseRFC3339(val) ==
  IF val.layout = "RFC3339"
  THEN [err |-> FALSE, t |-> [sec |-> val.sec, nsec |-> 0]]
  ELSE [err |-> TRUE, t |-> ZeroTime]

\* ------------------------------------------------------------------- Agent
\* the zero value of sharewoodapi.Agent
ZeroAgent ==
  [Name |-> "", Description |-> "", Release |-> "", BaseURL |-> "",
   OpenAPI |-> "", HowToUse |-> "", Expiration |-> ZeroTime, TTL |-> 0,
   Tags |-> <<>>]

\* ------------------------------------------------------------------- codec
NoCheck == [present |-> FALSE, TTL |-> 0]

\* registerAgent: the api.AgentServiceRegistration built from the agent
EncodeAgent(agent) ==
  LET m0 == [Description |-> agent.Description,
             howtouse |-> agent.HowToUse,
             baseurl |-> agent.BaseURL]
      m1 == IF ~IsZero(agent.Expiration)
            THEN m0 @@ ("expiration" :> FormatRFC3339(agent.Expiration))
            ELSE m0
      m2 == IF agent.Release # "" THEN m1 @@ ("release" :> agent.Release)
            ELSE m1
      m3 == IF agent.OpenAPI # "" THEN m2 @@ ("openapi" :> agent.OpenAPI)
            ELSE m2
      m4 == IF Len(agent.Tags) > 0
            THEN m3 @@ ("tags" :> encodeArrayToString(agent.Tags))
            ELSE m3
  IN [Name |-> agent.Name,
      Tags |-> <<AIAgentTag>> \o agent.Tags,
      Meta |-> m4,
      Check |-> IF agent.TTL > 0
                THEN [present |-> TRUE, TTL |-> agent.TTL]
                ELSE NoCheck]

\* the api.AgentService the registry holds after ServiceRegister(registration):
\* no ID was given, so the ID is the name
StoredService(registration) ==
  [ID |-> registration.Name, Service |-> registration.Name,
   Tags |-> registration.Tags, Meta |-> registration.Meta]

\* service.Meta[key] of a string-valued key: "" when the key is absent
MetaString(meta, key) == IF key \in DOMAIN meta THEN meta[key] ELSE ""

\* the loop that takes every service for an agent
IsAIAgent_Always(service) == TRUE

\* the isAIAgent loop
IsAIAgent(service) ==
  \E i \in 1..Len(service.Tags) : service.Tags[i] = AIAgentTag

RECURSIVE MergeTags_KeepsReserved(_, _)
\* the merge without the test that leaves the reserved tag out
MergeTags_KeepsReserved(tags, native) ==
  IF Len(native) = 0 THEN tags
  ELSE LET tag == Head(native)
           found == \E i \in 1..Len(tags) : tags[i] = tag
       IN IF ~found
          THEN MergeTags_KeepsReserved(Append(tags, tag), Tail(native))
          ELSE MergeTags_KeepsReserved(tags, Tail(native))

RECURSIVE MergeTags(_, _)
\* the loop over service.Tags that appends the tags not yet in the list
MergeTags(tags, native) ==
  IF Len(native) = 0 THEN tags
  ELSE LET tag == Head(native)
           found == \E i \in 1..Len(tags) : tags[i] = tag
       IN IF tag # AIAgentTag /\ ~found
          THEN MergeTags(Append(tags, tag), Tail(native))
          ELSE MergeTags(tags, Tail(native))

\* the expiration of the agent built from a service record
DecodeExpiration(meta) ==
  IF "expiration" \in DOMAIN meta /\ meta["expiration"] # EmptyStamp
  THEN LET p == ParseRFC3339(meta["expiration"])
       IN IF ~p.err THEN p.t ELSE ZeroTime
  ELSE ZeroTime

\* listAgents / getAgent: the sharewoodapi.Agent built from a service record
DecodeService(service) ==
  LET meta == service.Meta
      metaTags == IF "tags" \in DOMAIN meta /\ meta["tags"] # EmptyText
                  THEN decodeStringToArray(meta["tags"])
                  ELSE <<>>
  IN [Name |-> service.Service,
      Description |-> MetaString(meta, "Description"),
      Release |-> MetaString(meta, "release"),
      BaseURL |-> MetaString(meta, "baseurl"),
      OpenAPI |-> MetaString(meta, "openapi"),
      HowToUse |-> MetaString(meta, "howtouse"),
      Expiration |-> DecodeExpiration(meta),
      TTL |-> 0,
      Tags |-> MergeTags(metaTags, service.Tags)]

\* ---------------------------------------------------- access control gate
\* a bearer token: does its signature verify against JWT_SECRET, has it
\* expired, and its claims
NoToken == [signed |-> FALSE, expired |-> FALSE, UserID |-> "", Role |-> ""]

\* the Authorization header: scheme "" is an absent header
NoAuthHeader == [scheme |-> "", token |-> NoToken]

validateAPIKey(apiKey) ==
  IF apiKey = "test-api-key"
  THEN [role |-> "agent-publisher", valid |-> TRUE]
  ELSE [role |-> "", valid |-> FALSE]

\* the validation without the expiry of the token
validateJWT_IgnoresExpiry(token) ==
  IF token.signed
  THEN [claims |-> [UserID |-> token.UserID, Role |-> token.Role],
        valid |-> TRUE]
  ELSE [claims |-> [UserID |-> "", Role |-> ""], valid |-> FALSE]

validateJWT(token) ==
  IF token.signed /\ ~token.expired
  THEN [claims |-> [UserID |-> token.UserID, Role |-> token.Role],
        valid |-> TRUE]
  ELSE [claims |-> [UserID |-> "", Role |-> ""], valid |-> FALSE]

\* the keys of the gin context: nothing set
EmptyCtx == [hasRole |-> FALSE, role |-> "", hasUser |-> FALSE, user_id |-> ""]

\* the middleware that goes on to the bearer token after a valid API key and
\* takes the role and the user of the token when it is valid too
authMiddlewareRun_TokenOverridesKey(dev, apiKey, authHeader) ==
  LET k == validateAPIKey(apiKey)
      j == validateJWT(authHeader.token)
  IN IF dev
     THEN [next |-> TRUE, code |-> 0,
           ctx |-> [EmptyCtx EXCEPT !.hasRole = TRUE, !.role = "admin"]]
     ELSE IF authHeader.scheme = "Bearer" /\ j.valid
     THEN [next |-> TRUE, code |-> 0,
           ctx |-> [hasRole |-> TRUE, role |-> j.claims.Role,
                    hasUser |-> TRUE, user_id |-> j.claims.UserID]]
     ELSE IF apiKey # "" /\ k.valid
     THEN [next |-> TRUE, code |-> 0,
           ctx |-> [EmptyCtx EXCEPT !.hasRole = TRUE, !.role = k.role]]
     ELSE [next |-> FALSE, code |-> 401, ctx |-> EmptyCtx]

\* the middleware that aborts at once on an API key that is not valid
authMiddlewareRun_RejectsBadKey(dev, apiKey, authHeader) ==
  LET k == validateAPIKey(apiKey)
      j == validateJWT(authHeader.token)
  IN IF dev
     THEN [next |-> TRUE, code |-> 0,
           ctx |-> [EmptyCtx EXCEPT !.hasRole = TRUE, !.role = "admin"]]
     ELSE IF apiKey # ""
     THEN IF k.valid
          THEN [next |-> TRUE, code |-> 0,
                ctx |-> [EmptyCtx EXCEPT !.hasRole = TRUE, !.role = k.role]]
          ELSE [next |-> FALSE, code |-> 401, ctx |-> EmptyCtx]
     ELSE IF authHeader.scheme = "Bearer" /\ j.valid
     THEN [next |-> TRUE, code |-> 0,
           ctx |-> [hasRole |-> TRUE, role |-> j.claims.Role,
                    hasUser |-> TRUE, user_id |-> j.claims.UserID]]
     ELSE [next |-> FALSE, code |-> 401, ctx |-> EmptyCtx]

\* the middleware that looks at DEV_MODE only after the credentials
authMiddlewareRun_BypassLast(dev, apiKey, authHeader) ==
  LET k == validateAPIKey(apiKey)
      j == validateJWT(authHeader.token)
  IN IF apiKey # "" /\ k.valid
     THEN [next |-> TRUE, code |-> 0,
           ctx |-> [EmptyCtx EXCEPT !.hasRole = TRUE, !.role = k.role]]
     ELSE IF authHeader.scheme = "Bearer" /\ j.valid
     THEN [next |-> TRUE, code |-> 0,
           ctx |-> [hasRole |-> TRUE, role |-> j.claims.Role,
                    hasUser |-> TRUE, user_id |-> j.claims.UserID]]
     ELSE IF dev
     THEN [next |-> TRUE, code |-> 0,
           ctx |-> [EmptyCtx EXCEPT !.hasRole = TRUE, !.role = "admin"]]
     ELSE [next |-> FALSE, code |-> 401, ctx |-> EmptyCtx]

\* authMiddleware: next is c.Next(), otherwise the request is aborted with code
authMiddlewareRun(dev, apiKey, authHeader) ==
  LET k == validateAPIKey(apiKey)
      j == validateJWT(authHeader.token)
  IN IF dev
     THEN [next |-> TRUE, code |-> 0,
           ctx |-> [EmptyCtx EXCEPT !.hasRole = TRUE, !.role = "admin"]]
     ELSE IF apiKey # "" /\ k.valid
     THEN [next |-> TRUE, code |-> 0,
           ctx |-> [EmptyCtx EXCEPT !.hasRole = TRUE, !.role = k.role]]
     ELSE IF authHeader.scheme = "Bearer" /\ j.valid
     THEN [next |-> TRUE, code |-> 0,
           ctx |-> [hasRole |-> TRUE, role |-> j.claims.Role,
                    hasUser |-> TRUE, user_id |-> j.claims.UserID]]
     ELSE [next |-> FALSE, code |-> 401, ctx |-> EmptyCtx]

\* authorize(allowedRoles...): the handler built for one allow-list
authorizeRun(ctx, allowedRoles) ==
  IF ~ctx.hasRole
  THEN [next |-> FALSE, code |-> 403, error |-> "Role information missing"]
  ELSE IF \E i \in 1..Len(allowedRoles) :
            ctx.role = allowedRoles[i] \/ ctx.role = "admin"
  THEN [next |-> TRUE, code |-> 0, error |-> ""]
  ELSE [next |-> FALSE, code |-> 403, error |-> "Insufficient permissions"]

\* main: the allow-list of each route; <<>> for a route without authorize
PublisherRoles == <<"admin", "agent-publisher">>

\* the routes with the DELETE route left without authorize
HasAuthorize_DeregisterOpen(op) == op \in {"register", "health"}

HasAuthorize(op) == op \in {"register", "deregister", "health"}

RouteRoles(op) == IF HasAuthorize(op) THEN PublisherRoles ELSE <<>>

\* ------------------------------------------------------------------- state
VARIABLES
  devMode,    \* os.Getenv("DEV_MODE") == "true"
  services,   \* the registry: service ID -> api.AgentService
  checks,     \* the registry: service ID -> status of the check "service:<ID>"
  reqs,       \* the requests: slot -> request, its position and its response
  codec,      \* an Agent taken through the codec alone
  gate        \* a role and an allow-list taken through authorize alone

vars == <<devMode, services, checks, reqs, codec, gate>>

\* --------------------------------------------------------------- responses
NoResp ==
  [code |-> 0, error |-> "", details |-> "", message |-> "",
   agent |-> ZeroAgent, agents |-> <<>>]

ErrorResponse(code, error, details) ==
  [NoResp EXCEPT !.code = code, !.error = error, !.details = details]

\* the text of an error returned by the registry client when the registry
\* cannot be reached or fails
RegistryError == "registry error"

\* the text of the error of ServiceDeregister for an ID that the registry
\* holds no service under, and of UpdateTTL for an ID it holds no check under
UnknownServiceError == "unknown service ID"

UnknownCheckError == "unknown check ID"

\* ---------------------------------------------------------------- requests
NoBody == [ok |-> FALSE, agent |-> ZeroAgent]

IdleReq ==
  [pc |-> "idle", op |-> "", apiKey |-> "", authHeader |-> NoAuthHeader,
   name |-> "", body |-> NoBody, status |-> "", ctx |-> EmptyCtx,
   resp |-> NoResp, calls |-> <<>>]

\* one call of the registry client made for a request
Call(fn, ok) == [fn |-> fn, ok |-> ok]

\* the request ends with this response
Finish(r, resp, newCalls) ==
  reqs' = [reqs EXCEPT ![r].pc = "done", ![r].resp = resp,
                       ![r].calls = reqs[r].calls \o newCalls]

\* the request goes on to its next registry call
Goto(r, pc, newCalls) ==
  reqs' = [reqs EXCEPT ![r].pc = pc, ![r].calls = reqs[r].calls \o newCalls]

\* ---------------------------------------------------------------- registry
\* the registration that keeps the service already held under the ID
RegisteredServices_KeepsFirst(svcs, registration) ==
  svcs @@ (registration.Name :> StoredService(registration))

\* the registration that leaves only the new service in the registry
RegisteredServices_Replaces(svcs, registration) ==
  (registration.Name :> StoredService(registration))

\* consulClient.Agent().ServiceRegister: a service registered again under an
\* ID replaces the one held, with its check
RegisteredServices(svcs, registration) ==
  (registration.Name :> StoredService(registration)) @@ svcs

RegisteredChecks(chks, registration) ==
  LET others == [i \in DOMAIN chks \ {registration.Name} |-> chks[i]]
  IN IF registration.Check.present
     THEN (registration.Name :> "critical") @@ others
     ELSE others

\* the deregistration that leaves the service in the registry
Without_Nothing(f, id) == f

\* consulClient.Agent().ServiceDeregister(id)
Without(f, id) == [i \in DOMAIN f \ {id} |-> f[i]]

\* the existence check that only sees records with the classification tag
agentExists_TaggedOnly(svcs, name) ==
  \E id \in DOMAIN svcs : svcs[id].Service = name /\ IsAIAgent(svcs[id])

\* the existence check that does not compare the name
agentExists_AnyService(svcs, name) ==
  \E id \in DOMAIN svcs : svcs[id].Service # ""

\* agentExists, given the map that Services() returned
agentExists(svcs, name) ==
  \E id \in DOMAIN svcs : svcs[id].Service = name

\* the orders in which a range over the map can visit its keys
Orderings(S) ==
  {o \in [1..Cardinality(S) -> S] : \A i, j \in DOMAIN o : o[i] = o[j] => i = j}

\* the listing without the filter on the classification tag
ListedAgents_Unfiltered(svcs, o) ==
  [i \in 1..Len(o) |-> DecodeService(svcs[o[i]])]

\* the listing that leaves out a record whose expiration does not parse
ListedAgents_SkipsUnparsable(svcs, o) ==
  LET tagged == SelectSeq(o, LAMBDA id :
                  /\ IsAIAgent(svcs[id])
                  /\ "expiration" \in DOMAIN svcs[id].Meta
                     => ~ParseRFC3339(svcs[id].Meta["expiration"]).err)
  IN [i \in 1..Len(tagged) |-> DecodeService(svcs[tagged[i]])]

\* listAgents: the agents built while ranging over the map in the order o
ListedAgents(svcs, o) ==
  LET tagged == SelectSeq(o, LAMBDA id : IsAIAgent(svcs[id]))
  IN [i \in 1..Len(tagged) |-> DecodeService(svcs[tagged[i]])]

\* ----------------------------------------------------------------- actions
\* a request arrives on one of the agents routes
Receive(r, Creds, Payloads) ==
  /\ reqs[r].pc = "idle"
  /\ \E c \in Creds, p \in Payloads :
       reqs' = [reqs EXCEPT ![r] =
                  [IdleReq EXCEPT !.pc = "auth", !.op = p.op,
                                  !.apiKey = c.apiKey,
                                  !.authHeader = c.authHeader,
                                  !.name = p.name, !.body = p.body,
                                  !.status = p.status]]
  /\ UNCHANGED <<devMode, services, checks, codec, gate>>

\* the handler chain has returned: the response is sent and the request is over
Respond(r) ==
  /\ reqs[r].pc = "done"
  /\ reqs' = [reqs EXCEPT ![r] = IdleReq]
  /\ UNCHANGED <<devMode, services, checks, codec, gate>>

\* api.Use(authMiddleware())
AuthMiddleware(r) ==
  /\ reqs[r].pc = "auth"
  /\ LET o == authMiddlewareRun(devMode, reqs[r].apiKey, reqs[r].authHeader)
     IN IF o.next
        THEN reqs' = [reqs EXCEPT ![r].ctx = o.ctx,
                        ![r].pc = IF HasAuthorize(reqs[r].op)
                                  THEN "authorize" ELSE "handler"]
        ELSE Finish(r, ErrorResponse(o.code, "Authentication required",
                         "Provide a valid API key or Bearer token"), <<>>)
  /\ UNCHANGED <<devMode, services, checks, codec, gate>>

\* authorize("admin", "agent-publisher") on the three mutating routes
Authorize(r) ==
  /\ reqs[r].pc = "authorize"
  /\ LET o == authorizeRun(reqs[r].ctx, RouteRoles(reqs[r].op))
     IN IF o.next
        THEN Goto(r, "handler", <<>>)
        ELSE Finish(r, ErrorResponse(o.code, o.error, ""), <<>>)
  /\ UNCHANGED <<devMode, services, checks, codec, gate>>

\* listAgents
ListAgents(r) ==
  /\ reqs[r].pc = "handler" /\ reqs[r].op = "list"
  /\ \E err \in BOOLEAN :
       IF err
       THEN Finish(r, ErrorResponse(500, "Failed to list agents",
                        RegistryError), <<Call("Services", FALSE)>>)
       ELSE \E o \in Orderings(DOMAIN services) :
              Finish(r, [NoResp EXCEPT !.code = 200,
                                       !.agents = ListedAgents(services, o)],
                     <<Call("Services", TRUE)>>)
  /\ UNCHANGED <<devMode, services, checks, codec, gate>>

\* getAgent, up to and including the existence check
GetAgentExists(r) ==
  /\ reqs[r].pc = "handler" /\ reqs[r].op = "get"
  /\ \E err \in BOOLEAN :
       IF err
       THEN Finish(r, ErrorResponse(500, "Failed to check agent existence",
                        RegistryError), <<Call("Services", FALSE)>>)
       ELSE IF ~agentExists(services, reqs[r].name)
       THEN Finish(r, ErrorResponse(404, "Agent not found", ""),
                   <<Call("Services", TRUE)>>)
       ELSE Goto(r, "getServices", <<Call("Services", TRUE)>>)
  /\ UNCHANGED <<devMode, services, checks, codec, gate>>

\* the second read that takes a vanished agent for a failure
GetAgentServices_NotFoundIsError(r) ==
  /\ reqs[r].pc = "getServices"
  /\ \E err \in BOOLEAN :
       IF err
       THEN Finish(r, ErrorResponse(500, "Failed to get agent", RegistryError),
                   <<Call("Services", FALSE)>>)
       ELSE LET found == {id \in DOMAIN services :
                            /\ services[id].Service = reqs[r].name
                            /\ IsAIAgent(services[id])}
            IN IF found = {}
               THEN Finish(r, ErrorResponse(500, "Failed to get agent", ""),
                           <<Call("Services", TRUE)>>)
               ELSE \E id \in found :
                      Finish(r, [NoResp EXCEPT !.code = 200,
                                   !.agent = DecodeService(services[id])],
                             <<Call("Services", TRUE)>>)
  /\ UNCHANGED <<devMode, services, checks, codec, gate>>

\* getAgent, from the second read of the registry to the response
GetAgentServices(r) ==
  /\ reqs[r].pc = "getServices"
  /\ \E err \in BOOLEAN :
       IF err
       THEN Finish(r, ErrorResponse(500, "Failed to get agent", RegistryError),
                   <<Call("Services", FALSE)>>)
       ELSE LET found == {id \in DOMAIN services :
                            /\ services[id].Service = reqs[r].name
                            /\ IsAIAgent(services[id])}
            IN IF found = {}
               THEN Finish(r, ErrorResponse(404, "Agent not found", ""),
                           <<Call("Services", TRUE)>>)
               ELSE \E id \in found :
                      Finish(r, [NoResp EXCEPT !.code = 200,
                                   !.agent = DecodeService(services[id])],
                             <<Call("Services", TRUE)>>)
  /\ UNCHANGED <<devMode, services, checks, codec, gate>>

\* the required fields without howtouse
MissingRequired_NoHowToUse(agent) ==
  agent.Name = "" \/ agent.Description = "" \/ agent.BaseURL = ""

\* the required fields of registerAgent
MissingRequired(agent) ==
  agent.Name = "" \/ agent.Description = "" \/ agent.BaseURL = ""
    \/ agent.HowToUse = ""

\* registerAgent, up to and including the existence check
RegisterAgentExists(r) ==
  /\ reqs[r].pc = "handler" /\ reqs[r].op = "register"
  /\ LET agent == reqs[r].body.agent
     IN IF ~reqs[r].body.ok
        THEN Finish(r, ErrorResponse(400, "Invalid request body",
                         "bind error"), <<>>)
        ELSE IF MissingRequired(agent)
        THEN Finish(r, ErrorResponse(400, "Missing required fields",
                         "name, description, baseurl, and howtouse are required"),
                    <<>>)
        ELSE \E err \in BOOLEAN :
               IF err
               THEN Finish(r, ErrorResponse(500,
                                "Failed to check if agent already exists",
                                RegistryError), <<Call("Services", FALSE)>>)
               ELSE IF agentExists(services, agent.Name)
               THEN Finish(r, ErrorResponse(409, "Agent already exists",
                                agent.Name), <<Call("Services", TRUE)>>)
               ELSE Goto(r, "register", <<Call("Services", TRUE)>>)
  /\ UNCHANGED <<devMode, services, checks, codec, gate>>

\* registerAgent, from the encoding of the agent to the response
RegisterAgentRegister(r) ==
  /\ reqs[r].pc = "register"
  /\ LET agent == reqs[r].body.agent
         registration == EncodeAgent(agent)
     IN \E err \in BOOLEAN :
          IF err
          THEN /\ Finish(r, ErrorResponse(500, "Failed to register agent",
                              RegistryError),
                         <<Call("ServiceRegister", FALSE)>>)
               /\ UNCHANGED <<services, checks>>
          ELSE /\ services' = RegisteredServices(services, registration)
               /\ checks' = RegisteredChecks(checks, registration)
               /\ Finish(r, [NoResp EXCEPT !.code = 201, !.agent = agent,
                               !.message = "Agent registered successfully"],
                         <<Call("ServiceRegister", TRUE)>>)
  /\ UNCHANGED <<devMode, codec, gate>>

\* the existence check that goes on to ServiceDeregister when it failed
UnregisterAgentExists_IgnoresError(r) ==
  /\ reqs[r].pc = "handler" /\ reqs[r].op = "deregister"
  /\ \E err \in BOOLEAN :
       IF err
       THEN Goto(r, "deregister", <<Call("Services", FALSE)>>)
       ELSE IF ~agentExists(services, reqs[r].name)
       THEN Finish(r, ErrorResponse(404, "Agent not found", reqs[r].name),
                   <<Call("Services", TRUE)>>)
       ELSE Goto(r, "deregister", <<Call("Services", TRUE)>>)
  /\ UNCHANGED <<devMode, services, checks, codec, gate>>

\* unregisterAgent, up to and including the existence check
UnregisterAgentExists(r) ==
  /\ reqs[r].pc = "handler" /\ reqs[r].op = "deregister"
  /\ \E err \in BOOLEAN :
       IF err
       THEN Finish(r, ErrorResponse(500, "Failed to check agent existence",
                        RegistryError), <<Call("Services", FALSE)>>)
       ELSE IF ~agentExists(services, reqs[r].name)
       THEN Finish(r, ErrorResponse(404, "Agent not found", reqs[r].name),
                   <<Call("Services", TRUE)>>)
       ELSE Goto(r, "deregister", <<Call("Services", TRUE)>>)
  /\ UNCHANGED <<devMode, services, checks, codec, gate>>

\* unregisterAgent, from ServiceDeregister(name) to the response: the registry
\* answers with an error when it holds no service under that ID
UnregisterAgentDeregister(r) ==
  /\ reqs[r].pc = "deregister"
  /\ \E err \in BOOLEAN :
       IF err \/ reqs[r].name \notin DOMAIN services
       THEN /\ Finish(r, ErrorResponse(500, "Failed to unregister agent",
                           IF err THEN RegistryError
                           ELSE UnknownServiceError),
                      <<Call("ServiceDeregister", FALSE)>>)
            /\ UNCHANGED <<services, checks>>
       ELSE /\ services' = Without(services, reqs[r].name)
            /\ checks' = Without(checks, reqs[r].name)
            /\ Finish(r, [NoResp EXCEPT !.code = 200,
                            !.message = "Agent unregistered successfully"],
                      <<Call("ServiceDeregister", TRUE)>>)
  /\ UNCHANGED <<devMode, codec, gate>>

\* the statuses with the absent status let through
HealthStatuses_EmptyAllowed == {"passing", "warning", "critical", ""}

HealthStatuses == {"passing", "warning", "critical"}

\* updateAgentHealth, up to and including the existence check
UpdateAgentHealthExists(r) ==
  /\ reqs[r].pc = "handler" /\ reqs[r].op = "health"
  /\ IF reqs[r].status \notin HealthStatuses
     THEN Finish(r, ErrorResponse(400,
                      "Invalid status. Must be 'passing', 'warning', or 'critical'",
                      ""), <<>>)
     ELSE \E err \in BOOLEAN :
            IF err
            THEN Finish(r, ErrorResponse(500, "Failed to check agent existence",
                             RegistryError), <<Call("Services", FALSE)>>)
            ELSE IF ~agentExists(services, reqs[r].name)
            THEN Finish(r, ErrorResponse(404, "Agent not found", ""),
                        <<Call("Services", TRUE)>>)
            ELSE Goto(r, "updateTTL", <<Call("Services", TRUE)>>)
  /\ UNCHANGED <<devMode, services, checks, codec, gate>>

\* updateAgentHealth, from UpdateTTL("service:"+name, "", status) to the
\* response: the registry answers with an error when it holds no such check
UpdateAgentHealthUpdateTTL(r) ==
  /\ reqs[r].pc = "updateTTL"
  /\ \E err \in BOOLEAN :
       IF err \/ reqs[r].name \notin DOMAIN checks
       THEN /\ Finish(r, ErrorResponse(500, "Failed to update agent health",
                           IF err THEN RegistryError ELSE UnknownCheckError),
                      <<Call("UpdateTTL", FALSE)>>)
            /\ UNCHANGED checks
       ELSE /\ checks' = [checks EXCEPT ![reqs[r].name] = reqs[r].status]
            /\ Finish(r, [NoResp EXCEPT !.code = 200,
                            !.message = "Agent health updated successfully"],
                      <<Call("UpdateTTL", TRUE)>>)
  /\ UNCHANGED <<devMode, services, codec, gate>>

\* ------------------------------------------------------------------ inputs
\* the sequences over Texts of length at most n
TagLists(Texts, n) == UNION {[1..k -> Texts] : k \in 0..n}

\* the names that requests register and ask for
Names == {"a", "b"}

\* the optional fields of an Agent: all absent, or all present
PlainOptions ==
  [Release |-> "", OpenAPI |-> "", Expiration |-> ZeroTime, TTL |-> 0]
FullOptions ==
  [Release |-> "1.0.0", OpenAPI |-> "openapi.json",
   Expiration |-> [sec |-> 1, nsec |-> 0], TTL |-> 300]

MakeAgent(name, description, baseURL, howToUse, opt, tags) ==
  [Name |-> name, Description |-> description, Release |-> opt.Release,
   BaseURL |-> baseURL, OpenAPI |-> opt.OpenAPI, HowToUse |-> howToUse,
   Expiration |-> opt.Expiration, TTL |-> opt.TTL, Tags |-> tags]

\* the tags of request bodies
ReqTagTexts == {<<"x">>, AIAgentTag}

\* agents with every required field: "a" with every list of tags, "b"
\* without tags
ValidAgents ==
  {MakeAgent("a", "d", "u", "h", opt, tags) :
     opt \in {PlainOptions, FullOptions},
     tags \in TagLists(ReqTagTexts, MaxReqTags)}
  \cup {MakeAgent("b", "d", "u", "h", opt, <<>>) :
          opt \in {PlainOptions, FullOptions}}

\* agents that lack at least one required field
InvalidAgents ==
  {a \in {MakeAgent(n, d, u, h, PlainOptions, <<>>) :
            n \in {"", "a"}, d \in {"", "d"}, u \in {"", "u"}, h \in {"", "h"}} :
     "" \in {a.Name, a.Description, a.BaseURL, a.HowToUse}}

Payload(op, name, body, status) ==
  [op |-> op, name |-> name, body |-> body, status |-> status]

ListPayloads == {Payload("list", "", NoBody, "")}
GetPayloads == {Payload("get", n, NoBody, "") : n \in Names}
RegisterPayloads ==
  {Payload("register", "", [ok |-> TRUE, agent |-> a], "") :
     a \in ValidAgents \cup InvalidAgents}
    \cup {Payload("register", "", NoBody, "")}
DeregisterPayloads == {Payload("deregister", n, NoBody, "") : n \in Names}
HealthPayloads ==
  {Payload("health", n, NoBody, st) :
     n \in Names, st \in {"passing", "warning", "critical", "unknown", ""}}

Payloads ==
  ListPayloads \cup GetPayloads \cup RegisterPayloads \cup DeregisterPayloads
    \cup HealthPayloads

\* credentials
Token(signed, expired, role) ==
  [signed |-> signed, expired |-> expired, UserID |-> "u1", Role |-> role]

Creds(apiKey, scheme, token) ==
  [apiKey |-> apiKey, authHeader |-> [scheme |-> scheme, token |-> token]]

\* the API key of the clients, a bearer token of a reader, and no credential
HandlerCreds ==
  {Creds("test-api-key", "", NoToken),
   Creds("", "Bearer", Token(TRUE, FALSE, "reader")),
   Creds("", "", NoToken)}

\* services that other programs registered in the same registry
ForeignService(id, name, tags) ==
  [ID |-> id, Service |-> name, Tags |-> tags, Meta |-> <<>>]

\* an agent of the registry whose "expiration" metadata is not a timestamp
\* of the layout that getAgent parses
MalformedService(id, name, stamp) ==
  [ID |-> id, Service |-> name, Tags |-> <<AIAgentTag, <<"x">>>>,
   Meta |-> [Description |-> "d", howtouse |-> "h", baseurl |-> "u",
             expiration |-> stamp]]

\* the registries the server can start against
InitServices ==
  {<<>>,
   ("f1" :> ForeignService("f1", "a", <<<<"web">>>>)),
   ("b" :> ForeignService("b", "b", <<>>)),
   ("b" :> MalformedService("b", "b", GarbageStamp))
     @@ ("e1" :> MalformedService("e1", "e", EmptyStamp))}

\* ---------------------------------------------------------- specifications
Slots == {1}

CodecIdle ==
  [pc |-> "idle", agent |-> ZeroAgent, registration |-> EncodeAgent(ZeroAgent),
   decoded |-> ZeroAgent]

GateIdle ==
  [pc |-> "idle", ctx |-> EmptyCtx, allowedRoles |-> <<>>,
   out |-> authorizeRun(EmptyCtx, <<>>)]

Init ==
  /\ devMode = FALSE
  /\ services \in InitServices
  /\ checks = <<>>
  /\ reqs = [r \in Slots |-> IdleReq]
  /\ codec = CodecIdle
  /\ gate = GateIdle

Handlers(r) ==
  \/ AuthMiddleware(r)
  \/ Authorize(r)
  \/ ListAgents(r)
  \/ GetAgentExists(r)
  \/ GetAgentServices(r)
  \/ RegisterAgentExists(r)
  \/ RegisterAgentRegister(r)
  \/ UnregisterAgentExists(r)
  \/ UnregisterAgentDeregister(r)
  \/ UpdateAgentHealthExists(r)
  \/ UpdateAgentHealthUpdateTTL(r)
  \/ Respond(r)

Next ==
  \E r \in Slots :
    \/ Receive(r, HandlerCreds, Payloads)
    \/ Handlers(r)

Spec == Init /\ [][Next]_vars

\* ------------------------------------------- the gate under every credential
GateRoles == {"admin", "agent-publisher", "reader"}

\* an API key that is absent, the valid one or an unknown one, with an
\* Authorization header that is absent, of another scheme, or a bearer token
\* that is valid, wrongly signed or expired
GateCreds ==
  {Creds(k, h.scheme, h.token) :
     k \in {"", "test-api-key", "wrong-key"},
     h \in {NoAuthHeader, [scheme |-> "Basic", token |-> Token(TRUE, FALSE, "admin")]}
           \cup {[scheme |-> "Bearer", token |-> Token(sg[1], sg[2], role)] :
                   sg \in {<<TRUE, FALSE>>, <<FALSE, FALSE>>, <<TRUE, TRUE>>},
                   role \in GateRoles}}

GatePayloads ==
  {Payload("list", "", NoBody, ""),
   Payload("get", "a", NoBody, ""),
   Payload("register", "",
           [ok |-> TRUE,
            agent |-> MakeAgent("a", "d", "u", "h", FullOptions, <<>>)], ""),
   Payload("register", "",
           [ok |-> TRUE,
            agent |-> MakeAgent("", "d", "u", "h", PlainOptions, <<>>)], ""),
   Payload("deregister", "a", NoBody, ""),
   Payload("health", "a", NoBody, "passing"),
   Payload("health", "b", NoBody, "unknown")}

InitGate ==
  /\ devMode \in BOOLEAN
  /\ services \in InitServices
  /\ checks = <<>>
  /\ reqs = [r \in Slots |-> IdleReq]
  /\ codec = CodecIdle
  /\ gate = GateIdle

NextGate ==
  \E r \in Slots :
    \/ Receive(r, GateCreds, GatePayloads)
    \/ Handlers(r)

SpecGate == InitGate /\ [][NextGate]_vars

\* ------------------------------------------------------ authorize, alone
GateContexts ==
  {EmptyCtx} \cup {[EmptyCtx EXCEPT !.hasRole = TRUE, !.role = role] :
                     role \in GateRoles \cup {""}}

InitAuthorize ==
  /\ devMode = FALSE
  /\ services = <<>>
  /\ checks = <<>>
  /\ reqs = [r \in Slots |-> IdleReq]
  /\ codec = CodecIdle
  /\ gate \in {[GateIdle EXCEPT !.pc = "in", !.ctx = c, !.allowedRoles = al] :
                 c \in GateContexts, al \in TagLists(GateRoles, MaxAllowed)}

\* the handler that authorize(allowedRoles...) returns runs on the context
RunAuthorize ==
  /\ gate.pc = "in"
  /\ gate' = [gate EXCEPT !.pc = "out",
                          !.out = authorizeRun(gate.ctx, gate.allowedRoles)]
  /\ UNCHANGED <<devMode, services, checks, reqs, codec>>

NextAuthorize == RunAuthorize

SpecAuthorize == InitAuthorize /\ [][NextAuthorize]_vars

\* ---------------------------------------------------------- the codec, alone
Times == {[sec |-> s, nsec |-> n] : s \in 0..1, n \in 0..1}

CodecTagTexts == {EmptyText, <<"x">>, <<"y">>, AIAgentTag, <<"x", Comma, "y">>}

CodecAgents ==
  {MakeAgent("a", "d", "u", "h",
             [Release |-> rel, OpenAPI |-> oa, Expiration |-> t, TTL |-> ttl],
             tags) :
     rel \in {"", "1.0.0"}, oa \in {"", "openapi.json"}, t \in Times,
     ttl \in {0, 300}, tags \in TagLists(CodecTagTexts, MaxTags)}

InitCodec ==
  /\ devMode = FALSE
  /\ services = <<>>
  /\ checks = <<>>
  /\ reqs = [r \in Slots |-> IdleReq]
  /\ codec \in {[CodecIdle EXCEPT !.pc = "in", !.agent = a] : a \in CodecAgents}
  /\ gate = GateIdle

\* registerAgent builds the registration of the agent
CodecEncode ==
  /\ codec.pc = "in"
  /\ codec' = [codec EXCEPT !.pc = "encoded",
                            !.registration = EncodeAgent(codec.agent)]
  /\ UNCHANGED <<devMode, services, checks, reqs, gate>>

\* listAgents and getAgent build the agent of the service that the registry
\* holds for the registration
CodecDecode ==
  /\ codec.pc = "encoded"
  /\ codec' = [codec EXCEPT !.pc = "decoded",
                 !.decoded = DecodeService(StoredService(codec.registration))]
  /\ UNCHANGED <<devMode, services, checks, reqs, gate>>

NextCodec == CodecEncode \/ CodecDecode

SpecCodec == InitCodec /\ [][NextCodec]_vars

\* service records of the registry that carry the classification tag,
\* written by this server or by anything else: the native tags, the "tags"
\* metadata and the "expiration" metadata are arbitrary
DecodeTagTexts == {AIAgentTag, <<"x">>, <<"y">>}

DecodeNativeTags ==
  {l \in TagLists(DecodeTagTexts, MaxTags + 1) :
     \E i \in 1..Len(l) : l[i] = AIAgentTag}

\* the "tags" metadata: absent (<<>>), or a comma-joined text
DecodeMetaTags ==
  {<<>>, <<EmptyText>>, <<<<"x">>>>, <<<<"x", Comma, "x">>>>,
   <<<<"x", Comma, "y">>>>, <<AIAgentTag>>, <<<<"y", Comma>> \o AIAgentTag>>}

\* the "expiration" metadata: absent (<<>>), empty, unparseable or RFC 3339
DecodeMetaExpirations ==
  {<<>>, <<EmptyStamp>>, <<GarbageStamp>>,
   <<[layout |-> "RFC3339", sec |-> 1]>>}

DecodeMeta(mt, me) ==
  LET m1 == [k \in {"Description", "howtouse", "baseurl"} |-> "v"]
      m2 == IF mt # <<>> THEN m1 @@ ("tags" :> mt[1]) ELSE m1
  IN IF me # <<>> THEN m2 @@ ("expiration" :> me[1]) ELSE m2

DecodeRecords ==
  {[Name |-> "a", Tags |-> tags, Meta |-> DecodeMeta(mt, me), Check |-> NoCheck] :
     tags \in DecodeNativeTags, mt \in DecodeMetaTags,
     me \in DecodeMetaExpirations}

InitDecode ==
  /\ devMode = FALSE
  /\ services = <<>>
  /\ checks = <<>>
  /\ reqs = [r \in Slots |-> IdleReq]
  /\ codec \in {[CodecIdle EXCEPT !.pc = "encoded", !.registration = rec] :
                  rec \in DecodeRecords}
  /\ gate = GateIdle

NextDecode == CodecDecode

SpecDecode == InitDecode /\ [][NextDecode]_vars

\* ------------------------------------------------- two requests at a time
\* gin serves every request on a goroutine of its own: two requests are in
\* flight, each served once, and their registry calls interleave
ConcSlots == {1, 2}

ConcCreds == {Creds("test-api-key", "", NoToken)}

\* two different agents of one name, and the other requests for that name
ConcPayloads ==
  {Payload("register", "",
           [ok |-> TRUE,
            agent |-> MakeAgent("a", "d1", "u", "h", FullOptions, <<>>)], ""),
   Payload("register", "",
           [ok |-> TRUE,
            agent |-> MakeAgent("a", "d2", "u", "h", PlainOptions, <<<<"x">>>>)],
           ""),
   Payload("list", "", NoBody, ""),
   Payload("get", "a", NoBody, ""),
   Payload("deregister", "a", NoBody, ""),
   Payload("health", "a", NoBody, "passing"),
   Payload("get", "b", NoBody, ""),
   Payload("deregister", "b", NoBody, "")}

\* registries that hold no record of the name "a": an empty one, and one
\* with the record that a Register of the agent "b" left
ConcServices ==
  {<<>>,
   ("b" :> StoredService(EncodeAgent(
             MakeAgent("b", "d", "u", "h", PlainOptions, <<<<"x">>>>))))}

InitConc ==
  /\ devMode = FALSE
  /\ services \in ConcServices
  /\ checks = <<>>
  /\ reqs = [r \in ConcSlots |-> IdleReq]
  /\ codec = CodecIdle
  /\ gate = GateIdle

NextConc ==
  \E r \in ConcSlots :
    \/ Receive(r, ConcCreds, ConcPayloads)
    \/ AuthMiddleware(r)
    \/ Authorize(r)
    \/ ListAgents(r)
    \/ GetAgentExists(r)
    \/ GetAgentServices(r)
    \/ RegisterAgentExists(r)
    \/ RegisterAgentRegister(r)
    \/ UnregisterAgentExists(r)
    \/ UnregisterAgentDeregister(r)
    \/ UpdateAgentHealthExists(r)
    \/ UpdateAgentHealthUpdateTTL(r)

SpecConc == InitConc /\ [][NextConc]_vars

\* ------------------------------------------- a client's run of requests
\* requests served one after another, as the demo client sends them; each is
\* kept with its response, so that a state holds the run so far
LifeSlots == {1, 2, 3}

InitLife ==
  /\ devMode = FALSE
  /\ services \in ConcServices
  /\ checks = <<>>
  /\ reqs = [r \in LifeSlots |-> IdleReq]
  /\ codec = CodecIdle
  /\ gate = GateIdle

NextLife ==
  \E r \in LifeSlots :
    \/ /\ \A q \in LifeSlots : q < r => reqs[q].pc = "done"
       /\ Receive(r, ConcCreds, ConcPayloads)
    \/ AuthMiddleware(r)
    \/ Authorize(r)
    \/ ListAgents(r)
    \/ GetAgentExists(r)
    \/ GetAgentServices(r)
    \/ RegisterAgentExists(r)
    \/ RegisterAgentRegister(r)
    \/ UnregisterAgentExists(r)
    \/ UnregisterAgentDeregister(r)
    \/ UpdateAgentHealthExists(r)
    \/ UpdateAgentHealthUpdateTTL(r)

SpecLife == InitLife /\ [][NextLife]_vars

\* ------------------------------------------------------------- properties
\* a record with this name is registered, whatever its tags
NamePresent(name) == \E id \in DOMAIN services : services[id].Service = name

\* the request made a call of this registry function
Called(q, fn) == \E i \in 1..Len(q.calls) : q.calls[i].fn = fn

\* in this step the handler of r read the registry and got an answer
ReadOK(r) == reqs'[r].calls = Append(reqs[r].calls, Call("Services", TRUE))

\* the request reaches its handler and the handler runs in this step
HandlerRuns(r, op) ==
  reqs[r].pc = "handler" /\ reqs[r].op = op /\ reqs'[r] # reqs[r]

ValidBody(q) ==
  /\ q.body.ok
  /\ q.body.agent.Name # "" /\ q.body.agent.Description # ""
  /\ q.body.agent.BaseURL # "" /\ q.body.agent.HowToUse # ""

\* C1: a Register request with valid mandatory fields for a name that is
\* present in the registry (tagged or not), whose existence check is answered,
\* ends with 409 Conflict, makes no register call and leaves every record of
\* the registry as it was.
C1_RegisterPresentNameConflicts ==
  [][\A r \in Slots :
       (/\ HandlerRuns(r, "register")
        /\ ValidBody(reqs[r])
        /\ NamePresent(reqs[r].body.agent.Name)
        /\ ReadOK(r))
       => (/\ reqs'[r].pc = "done"
           /\ reqs'[r].resp.code = 409
           /\ ~Called(reqs'[r], "ServiceRegister")
           /\ services' = services
           /\ checks' = checks)]_vars

\* C1 happens: a Register for a name held by a record without the tag got 409
C1_Witness ==
  \E r \in Slots :
    /\ reqs[r].pc = "done" /\ reqs[r].op = "register"
    /\ reqs[r].resp.code = 409
    /\ \E id \in DOMAIN services :
         /\ services[id].Service = reqs[r].body.agent.Name
         /\ \A i \in 1..Len(services[id].Tags) : services[id].Tags[i] # AIAgentTag

\* the members of an allow-list
AllowedSet(allowedRoles) == {allowedRoles[i] : i \in 1..Len(allowedRoles)}

\* C2: for every resolved role and every allow-list, the empty one included,
\* authorize permits iff the role is "admin" or a member of the allow-list,
\* and otherwise rejects with 403 insufficient permissions.
C2_AuthorizeIffAdminOrAllowed ==
  (gate.pc = "out" /\ gate.ctx.hasRole)
  => /\ gate.out.next <=>
          (gate.ctx.role = "admin" \/ gate.ctx.role \in AllowedSet(gate.allowedRoles))
     /\ ~gate.out.next =>
          (gate.out.code = 403 /\ gate.out.error = "Insufficient permissions")

\* the request carries neither a valid API key nor a valid bearer token
NoValidCredential(q) ==
  /\ q.apiKey # "test-api-key"
  /\ ~(/\ q.authHeader.scheme = "Bearer"
       /\ q.authHeader.token.signed
       /\ ~q.authHeader.token.expired)

\* C3: with the bypass flag off, a request to any agents route that carries
\* neither a valid API key nor a valid bearer token never gets past the
\* authentication middleware: it ends with 401 and no registry call is made
\* for it, whatever its body, status or name.
C3_NoCredentialRejected ==
  \A r \in Slots :
    (~devMode /\ reqs[r].pc # "idle" /\ NoValidCredential(reqs[r]))
    => /\ reqs[r].pc \in {"auth", "done"}
       /\ reqs[r].calls = <<>>
       /\ reqs[r].pc = "done" => reqs[r].resp.code = 401

\* C3 happens: a deregister with an unknown key and an expired token got 401
C3_Witness ==
  \E r \in Slots :
    /\ ~devMode
    /\ reqs[r].pc = "done" /\ reqs[r].op = "deregister"
    /\ reqs[r].apiKey = "wrong-key"
    /\ reqs[r].authHeader.scheme = "Bearer" /\ reqs[r].authHeader.token.expired
    /\ reqs[r].resp.code = 401
    /\ NamePresent(reqs[r].name)

\* the request is past the middleware chain
PastGates(q) == q.pc \notin {"idle", "auth", "authorize"}

\* C4: on register, deregister and health-update an authenticated caller with
\* role agent-publisher is not rejected by the gate, and one whose role is
\* neither admin nor agent-publisher is rejected with 403 before validation
\* and before any registry call; the list and get requests of the latter reach
\* their handler.
C4_PublisherPassesReaderRejected ==
  \A r \in Slots :
    (reqs[r].ctx.hasRole /\ PastGates(reqs[r]))
    => /\ (reqs[r].op \in {"register", "deregister", "health"}
             /\ reqs[r].ctx.role = "agent-publisher")
          => reqs[r].resp.code \notin {401, 403}
       /\ (reqs[r].op \in {"register", "deregister", "health"}
             /\ reqs[r].ctx.role \notin {"admin", "agent-publisher"})
          => (/\ reqs[r].pc = "done"
              /\ reqs[r].resp.code = 403
              /\ reqs[r].calls = <<>>)
       /\ (reqs[r].op \in {"list", "get"} /\ reqs[r].pc = "done")
          => (reqs[r].resp.code \notin {401, 403} /\ Len(reqs[r].calls) > 0)

\* C4 happens: a reader's health-update with an invalid status got 403
C4_Witness ==
  \E r \in Slots :
    /\ reqs[r].pc = "done" /\ reqs[r].op = "health"
    /\ reqs[r].status = "unknown"
    /\ reqs[r].ctx.hasRole /\ reqs[r].ctx.role = "reader"
    /\ reqs[r].resp.code = 403

\* the IDs of the records that carry the classification tag
TaggedIDs ==
  {id \in DOMAIN services :
     \E i \in 1..Len(services[id].Tags) : services[id].Tags[i] = AIAgentTag}

\* C5: a successful List returns exactly one Agent for each record that
\* carries the tag "ai-agent" at the time of the read and none for any other
\* record.
C5_ListReturnsTaggedRecords ==
  [][\A r \in Slots :
       (HandlerRuns(r, "list") /\ reqs'[r].resp.code = 200)
       => LET agents == reqs'[r].resp.agents
          IN /\ Len(agents) = Cardinality(TaggedIDs)
             /\ \E o \in Orderings(TaggedIDs) :
                  \A i \in 1..Len(agents) : agents[i].Name = services[o[i]].Service
             /\ {agents[i].Name : i \in 1..Len(agents)}
                  = {services[id].Service : id \in TaggedIDs}]_vars

\* C5 happens: a List answered while the registry held a tagged record and a
\* record without the tag
C5_Witness ==
  \E r \in Slots :
    /\ reqs[r].pc = "done" /\ reqs[r].op = "list" /\ reqs[r].resp.code = 200
    /\ Len(reqs[r].resp.agents) = 1
    /\ TaggedIDs # {} /\ TaggedIDs # DOMAIN services

\* the record that a Register of this name left in the registry: it is held
\* under the name as its ID and carries the classification tag
RegisteredUnder(name) == name \in DOMAIN services /\ name \in TaggedIDs

\* C6: a Get of a name, answered while the registry holds the record that a
\* Register of that name returned 201 for, returns 200 with an Agent of that
\* name whose tags do not contain the reserved tag "ai-agent", whatever tags
\* the caller supplied.
C6_GetAfterRegisterHidesReservedTag ==
  [][\A r \in Slots :
       (/\ reqs[r].pc = "getServices"
        /\ RegisteredUnder(reqs[r].name)
        /\ ReadOK(r))
       => (/\ reqs'[r].resp.code = 200
           /\ reqs'[r].resp.agent.Name = reqs[r].name
           /\ \A i \in 1..Len(reqs'[r].resp.agent.Tags) :
                reqs'[r].resp.agent.Tags[i] # AIAgentTag)]_vars

\* C7: a Deregister of a name that is not present in the registry, whose
\* existence check is answered, ends with 404 NotFound, never calls the
\* registry's deregister and leaves the registry unchanged.
C7_DeregisterAbsentNameNotFound ==
  [][\A r \in Slots :
       (/\ HandlerRuns(r, "deregister")
        /\ ~NamePresent(reqs[r].name)
        /\ ReadOK(r))
       => (/\ reqs'[r].pc = "done"
           /\ reqs'[r].resp.code = 404
           /\ ~Called(reqs'[r], "ServiceDeregister")
           /\ services' = services
           /\ checks' = checks)]_vars

\* C7 happens: a Deregister of an absent name got 404 while the registry held
\* other records
C7_Witness ==
  \E r \in Slots :
    /\ reqs[r].pc = "done" /\ reqs[r].op = "deregister"
    /\ reqs[r].resp.code = 404
    /\ ~NamePresent(reqs[r].name)
    /\ DOMAIN services # {}

\* C8: a health-update whose status is not passing, warning or critical (an
\* absent status included) ends with 400 ValidationError, whether or not the
\* name exists, without the existence check and without any update call.
C8_InvalidStatusRejectedFirst ==
  [][\A r \in Slots :
       (/\ HandlerRuns(r, "health")
        /\ reqs[r].status \notin {"passing", "warning", "critical"})
       => (/\ reqs'[r].pc = "done"
           /\ reqs'[r].resp.code = 400
           /\ reqs'[r].calls = <<>>
           /\ services' = services
           /\ checks' = checks)]_vars

\* C8 happens: a health-update without a status got 400 for a name that exists
C8_Witness ==
  \E r \in Slots :
    /\ reqs[r].pc = "done" /\ reqs[r].op = "health"
    /\ reqs[r].status = ""
    /\ reqs[r].resp.code = 400
    /\ NamePresent(reqs[r].name)

\* C9: a Register whose body lacks any of name, description, baseURL, howToUse
\* ends with 400 ValidationError without any registry call, whether or not the
\* name is already registered.
C9_MissingFieldRejectedFirst ==
  [][\A r \in Slots :
       (/\ HandlerRuns(r, "register")
        /\ reqs[r].body.ok
        /\ \/ reqs[r].body.agent.Name = ""
           \/ reqs[r].body.agent.Description = ""
           \/ reqs[r].body.agent.BaseURL = ""
           \/ reqs[r].body.agent.HowToUse = "")
       => (/\ reqs'[r].pc = "done"
           /\ reqs'[r].resp.code = 400
           /\ reqs'[r].calls = <<>>
           /\ services' = services
           /\ checks' = checks)]_vars

\* C9 happens: a Register without howToUse got 400 for a registered name
C9_Witness ==
  \E r \in Slots :
    /\ reqs[r].pc = "done" /\ reqs[r].op = "register"
    /\ reqs[r].body.ok
    /\ reqs[r].body.agent.HowToUse = "" /\ reqs[r].body.agent.Description # ""
    /\ reqs[r].resp.code = 400
    /\ NamePresent(reqs[r].body.agent.Name)

\* C10: decoding the service record made from a valid Agent gives an Agent
\* with the same name, description, baseURL and howToUse, with no tags when
\* the Agent has none and the zero timestamp when it has no expiration.
C10_DecodeEncodeKeepsMandatoryFields ==
  codec.pc = "decoded"
  => /\ codec.decoded.Name = codec.agent.Name
     /\ codec.decoded.Description = codec.agent.Description
     /\ codec.decoded.BaseURL = codec.agent.BaseURL
     /\ codec.decoded.HowToUse = codec.agent.HowToUse
     /\ codec.agent.Tags = <<>> => codec.decoded.Tags = <<>>
     /\ (codec.agent.Expiration.sec = 0 /\ codec.agent.Expiration.nsec = 0)
        => codec.decoded.Expiration = [sec |-> 0, nsec |-> 0]

\* C10 happens: an Agent without tags and without expiration, but with a
\* release and a ttl, was encoded and decoded
C10_Witness ==
  /\ codec.pc = "decoded"
  /\ codec.agent.Tags = <<>>
  /\ codec.agent.Expiration = [sec |-> 0, nsec |-> 0]
  /\ codec.agent.Release # "" /\ codec.agent.TTL > 0
  /\ codec.decoded.Name = "a"

\* C11: for every service record that carries the classification tag, the
\* tags of the agent that listAgents and getAgent build from it contain
\* neither the classification tag nor the same value twice, and contain
\* every other native tag of the record.
C11_ReconstructedTagsClean ==
  codec.pc = "decoded"
  => LET tags == codec.decoded.Tags
         native == codec.registration.Tags
     IN /\ \A i \in 1..Len(tags) : tags[i] # AIAgentTag
        /\ \A i, j \in 1..Len(tags) : tags[i] = tags[j] => i = j
        /\ \A i \in 1..Len(native) :
             native[i] # AIAgentTag
             => \E j \in 1..Len(tags) : tags[j] = native[i]

\* C12: the agent decoded from the record that registerAgent makes of an
\* Agent equals that Agent in every field, so two Agents that differ never
\* read back equal.
C12_DecodeEncodeIsIdentity ==
  codec.pc = "decoded" => codec.decoded = codec.agent

\* the response of getAgent for a name that no record of the registry holds
GetNotFound ==
  [code |-> 404, error |-> "Agent not found", details |-> "", message |-> "",
   agent |-> ZeroAgent, agents |-> <<>>]

\* every record registered under this name lacks the classification tag
NoneTagged(name) ==
  \A id \in DOMAIN services :
    services[id].Service = name => id \notin TaggedIDs

\* C13: a Get of a name that only records without the classification tag
\* hold ends with 404 and the very response of a Get of a name that no
\* record holds; a Get answers 200 only with the agent of a tagged record,
\* and every other Get response carries no agent.
C13_GetUntaggedSameAsAbsent ==
  [][\A r \in Slots :
       /\ (/\ HandlerRuns(r, "get")
           /\ ~NamePresent(reqs[r].name)
           /\ ReadOK(r))
          => (reqs'[r].pc = "done" /\ reqs'[r].resp = GetNotFound)
       /\ (/\ reqs[r].pc = "getServices"
           /\ NamePresent(reqs[r].name) /\ NoneTagged(reqs[r].name)
           /\ ReadOK(r))
          => (reqs'[r].pc = "done" /\ reqs'[r].resp = GetNotFound)
       /\ (reqs[r].op = "get" /\ reqs[r].pc # "done" /\ reqs'[r].pc = "done")
          => IF reqs'[r].resp.code = 200
             THEN \E id \in TaggedIDs :
                    /\ services[id].Service = reqs[r].name
                    /\ reqs'[r].resp.agent.Name = reqs[r].name
             ELSE reqs'[r].resp.agent = ZeroAgent /\ reqs'[r].resp.agents = <<>>
     ]_vars

\* C13 happens: a Get read the registry twice for a name that a record
\* without the tag holds, and answered as for an absent name
C13_Witness ==
  \E r \in Slots :
    /\ reqs[r].pc = "done" /\ reqs[r].op = "get"
    /\ NamePresent(reqs[r].name) /\ NoneTagged(reqs[r].name)
    /\ Len(reqs[r].calls) = 2
    /\ reqs[r].resp = GetNotFound

\* the "expiration" metadata of the record is absent, empty or unparseable
BadExpiration(id) ==
  \/ "expiration" \notin DOMAIN services[id].Meta
  \/ services[id].Meta["expiration"].layout # "RFC3339"

\* C14: a List whose read of the registry is answered ends with 200 and one
\* agent for each tagged record, and a Get of a tagged record whose second
\* read is answered ends with 200 and that agent; where the expiration
\* metadata of the record is absent, empty or unparseable, the agent has the
\* zero timestamp as expiration.
C14_MalformedExpirationReadsAsZero ==
  [][\A r \in Slots :
       /\ (HandlerRuns(r, "list") /\ ReadOK(r))
          => /\ reqs'[r].pc = "done" /\ reqs'[r].resp.code = 200
             /\ Len(reqs'[r].resp.agents) = Cardinality(TaggedIDs)
             /\ \A id \in TaggedIDs :
                  \E i \in 1..Len(reqs'[r].resp.agents) :
                    /\ reqs'[r].resp.agents[i].Name = services[id].Service
                    /\ BadExpiration(id)
                       => reqs'[r].resp.agents[i].Expiration
                            = [sec |-> 0, nsec |-> 0]
       /\ (/\ reqs[r].pc = "getServices" /\ ReadOK(r)
           /\ \E id \in TaggedIDs : services[id].Service = reqs[r].name
           /\ \A id \in TaggedIDs :
                services[id].Service = reqs[r].name => BadExpiration(id))
          => /\ reqs'[r].pc = "done" /\ reqs'[r].resp.code = 200
             /\ reqs'[r].resp.agent.Name = reqs[r].name
             /\ reqs'[r].resp.agent.Expiration = [sec |-> 0, nsec |-> 0]
     ]_vars

\* C14 happens: a List of a registry with a record of unparseable
\* expiration answered 200 with that agent and an agent that has an expiration
C14_Witness ==
  \E r \in Slots :
    /\ reqs[r].pc = "done" /\ reqs[r].op = "list" /\ reqs[r].resp.code = 200
    /\ \E id \in DOMAIN services :
         /\ "expiration" \in DOMAIN services[id].Meta
         /\ services[id].Meta["expiration"].layout = "garbage"
         /\ \E i, j \in 1..Len(reqs[r].resp.agents) :
              /\ reqs[r].resp.agents[i].Name = services[id].Service
              /\ reqs[r].resp.agents[i].Expiration = [sec |-> 0, nsec |-> 0]
              /\ reqs[r].resp.agents[j].Expiration.sec = 1

\* the request carries a bearer token that is signed and has not expired
ValidBearer(q) ==
  /\ q.authHeader.scheme = "Bearer"
  /\ q.authHeader.token.signed
  /\ ~q.authHeader.token.expired

\* C15: with the bypass flag off, a request with an API key that is not in
\* the key table and a valid bearer token is past the middleware with the
\* role of the token's claims and is not answered 401; without a valid bearer
\* token it ends with 401 and no registry call.
C15_BadKeyFallsThroughToToken ==
  \A r \in Slots :
    (/\ ~devMode
     /\ reqs[r].apiKey \notin {"", "test-api-key"}
     /\ reqs[r].pc \notin {"idle", "auth"})
    => IF ValidBearer(reqs[r])
       THEN /\ reqs[r].ctx.hasRole
            /\ reqs[r].ctx.role = reqs[r].authHeader.token.Role
            /\ reqs[r].resp.code # 401
       ELSE /\ reqs[r].pc = "done"
            /\ reqs[r].resp.code = 401
            /\ reqs[r].calls = <<>>

\* C15 happens: a register with an unknown key and the valid token of an
\* agent-publisher reached the registry
C15_Witness ==
  \E r \in Slots :
    /\ ~devMode
    /\ reqs[r].pc = "done" /\ reqs[r].op = "register"
    /\ reqs[r].apiKey = "wrong-key" /\ ValidBearer(reqs[r])
    /\ reqs[r].ctx.role = "agent-publisher"
    /\ Len(reqs[r].calls) > 0

\* C16: with the bypass flag set, every request that is past the
\* authentication middleware has the role "admin", whatever its credentials,
\* and is never answered 401 or 403: register, deregister and health-update
\* get past authorize.
C16_BypassAuthorizesAsAdmin ==
  \A r \in Slots :
    (devMode /\ reqs[r].pc \notin {"idle", "auth"})
    => /\ reqs[r].ctx.hasRole /\ reqs[r].ctx.role = "admin"
       /\ reqs[r].resp.code \notin {401, 403}
       /\ reqs[r].pc = "done"
          => (Len(reqs[r].calls) > 0 \/ reqs[r].resp.code = 400)

\* C16 happens: under the bypass flag a deregister with an unknown key and
\* the expired token of a reader reached the registry
C16_Witness ==
  \E r \in Slots :
    /\ devMode
    /\ reqs[r].pc = "done" /\ reqs[r].op = "deregister"
    /\ reqs[r].apiKey = "wrong-key"
    /\ reqs[r].authHeader.scheme = "Bearer"
    /\ reqs[r].authHeader.token.expired
    /\ reqs[r].authHeader.token.Role = "reader"
    /\ Len(reqs[r].calls) > 0

\* the texts of the errors that the registry client returns
RegistryErrors == {RegistryError, UnknownServiceError, UnknownCheckError}

\* C17: a registry call that returned an error is the last call made for its
\* request: the request has ended with 500 and the text of the error in
\* details, and made no call after it, neither the same one again nor the
\* next one of its handler; no other request ends with 500.
C17_FirstRegistryErrorEndsRequest ==
  \A r \in Slots :
    /\ \A i \in 1..Len(reqs[r].calls) :
         ~reqs[r].calls[i].ok
         => /\ i = Len(reqs[r].calls)
            /\ reqs[r].pc = "done"
            /\ reqs[r].resp.code = 500
            /\ reqs[r].resp.details \in RegistryErrors
    /\ reqs[r].resp.code = 500
       => (reqs[r].calls # <<>> /\ ~reqs[r].calls[Len(reqs[r].calls)].ok)

\* C17 happens: the existence check of a Register with a valid body failed
\* and the request ended with 500 without a register call
C17_Witness ==
  \E r \in Slots :
    /\ reqs[r].pc = "done" /\ reqs[r].op = "register"
    /\ ValidBody(reqs[r])
    /\ reqs[r].calls = <<Call("Services", FALSE)>>
    /\ reqs[r].resp.code = 500
    /\ reqs[r].resp.details = RegistryError

\* in this step the request of r ends
Ends(r) == reqs[r].pc \notin {"idle", "done"} /\ reqs'[r].pc = "done"

AllAnswered(q) == \A i \in 1..Len(q.calls) : q.calls[i].ok

\* both requests are Registers of one name and both have ended, with every
\* registry call answered
BothRegistered ==
  \A r \in ConcSlots :
    /\ reqs[r].pc = "done" /\ reqs[r].op = "register"
    /\ AllAnswered(reqs[r])

\* C19: two Registers for one name that no record holds, served at the same
\* time, with the registry answering every call. The register call of a
\* request that ends with 201 leaves the record of that request under the
\* name, whatever was there (last writer wins); and when both have ended,
\* each got 201 or 409, at least one got 201, and the registry holds exactly
\* one record of the name. That both get 201 is possible: C19_Witness.
C19_RegisterRaceLastWriterWins ==
  [][/\ \A r \in ConcSlots :
          (/\ reqs[r].pc = "register" /\ reqs'[r].pc = "done"
           /\ reqs'[r].resp.code = 201)
          => LET agent == reqs[r].body.agent
             IN /\ agent.Name \in DOMAIN services'
                /\ services'[agent.Name].Service = agent.Name
                /\ services'[agent.Name].Meta["Description"] = agent.Description
                /\ services'[agent.Name].Tags = <<AIAgentTag>> \o agent.Tags
     /\ BothRegistered'
        => /\ \A r \in ConcSlots : reqs'[r].resp.code \in {201, 409}
           /\ \E r \in ConcSlots : reqs'[r].resp.code = 201
           /\ Cardinality({id \in DOMAIN services' :
                             services'[id].Service = "a"}) = 1
    ]_vars

\* C19 happens: both Registers passed the existence check, both ended with
\* 201, and the registry holds the record of one of them, not of the other
C19_Witness ==
  \E r1, r2 \in ConcSlots :
    /\ r1 # r2
    /\ BothRegistered
    /\ reqs[r1].resp.code = 201 /\ reqs[r2].resp.code = 201
    /\ reqs[r1].body.agent.Description # reqs[r2].body.agent.Description
    /\ services["a"].Meta["Description"] = reqs[r2].body.agent.Description

\* C20: a health-update that ends without an error of an unreachable or
\* failing registry ends with 200, 400 or 404; for a name that a record of
\* the registry holds and a status among passing, warning and critical it
\* ends with 200 and the check of the name has the given status.
C20_HealthUpdateOfPresentNameSucceeds ==
  [][\A r \in Slots :
       (/\ reqs[r].op = "health"
        /\ reqs[r].pc \in {"handler", "updateTTL"}
        /\ reqs'[r].pc = "done"
        /\ reqs'[r].resp.details # RegistryError)
       => /\ reqs'[r].resp.code \in {200, 400, 404}
          /\ (/\ NamePresent(reqs[r].name)
              /\ reqs[r].status \in {"passing", "warning", "critical"})
             => /\ reqs'[r].resp.code = 200
                /\ reqs[r].name \in DOMAIN checks'
                /\ checks'[reqs[r].name] = reqs[r].status
    ]_vars

\* every registry call made for the request was answered without an error
\* and the request has ended
Served(q) == q.pc = "done" /\ AllAnswered(q)

\* C21: in a run of requests served one after another, once a Register of a
\* name has ended with 201 and a later Deregister of the name with 200, and
\* no Register of the name has ended with 201 since, a request whose registry
\* calls are answered finds no trace of the agent: a Get of the name ends with
\* 404, a List with 200 and no agent of the name, and a Register of the name
\* with 201.
C21_DeregisteredAgentLeavesNoTrace ==
  \A i, j, k \in LifeSlots :
    (/\ i < j /\ j < k
     /\ reqs[i].pc = "done" /\ reqs[i].op = "register"
     /\ reqs[i].resp.code = 201
     /\ reqs[j].pc = "done" /\ reqs[j].op = "deregister"
     /\ reqs[j].name = reqs[i].body.agent.Name
     /\ reqs[j].resp.code = 200
     /\ \A m \in LifeSlots :
          (j < m /\ m < k /\ reqs[m].op = "register")
          => reqs[m].resp.code # 201
     /\ Served(reqs[k]))
    => /\ (reqs[k].op = "get" /\ reqs[k].name = reqs[j].name)
          => reqs[k].resp.code = 404
       /\ reqs[k].op = "list"
          => /\ reqs[k].resp.code = 200
             /\ \A n \in 1..Len(reqs[k].resp.agents) :
                  reqs[k].resp.agents[n].Name # reqs[j].name
       /\ (reqs[k].op = "register"
             /\ reqs[k].body.agent.Name = reqs[j].name)
          => reqs[k].resp.code = 201

\* C21 happens: a Register got 201, the Deregister of the name 200, and a
\* Register of another agent of the name 201 again
C21_Witness ==
  /\ reqs[1].pc = "done" /\ reqs[1].op = "register"
  /\ reqs[1].resp.code = 201
  /\ reqs[2].pc = "done" /\ reqs[2].op = "deregister"
  /\ reqs[2].name = reqs[1].body.agent.Name
  /\ reqs[2].resp.code = 200
  /\ reqs[3].pc = "done" /\ reqs[3].op = "register"
  /\ reqs[3].body.agent.Name = reqs[2].name
  /\ reqs[3].body.agent.Description # reqs[1].body.agent.Description
  /\ reqs[3].resp.code = 201

\* C22: with the bypass flag off, a request with the valid API key is past
\* the middleware with the role of the key, agent-publisher, and without a
\* user_id, whatever Authorization header it carries: a valid bearer token
\* of an admin or of a reader changes neither.
C22_ValidKeyDecidesRoleAlone ==
  \A r \in Slots :
    (/\ ~devMode
     /\ reqs[r].apiKey = "test-api-key"
     /\ reqs[r].pc \notin {"idle", "auth"})
    => /\ reqs[r].ctx.hasRole /\ reqs[r].ctx.role = "agent-publisher"
       /\ ~reqs[r].ctx.hasUser /\ reqs[r].ctx.user_id = ""
       /\ reqs[r].resp.code \notin {401, 403}

\* C22 happens: a request with the valid key and the valid token of an admin
\* is past the middleware
C22_Witness ==
  \E r \in Slots :
    /\ ~devMode
    /\ reqs[r].pc = "done"
    /\ reqs[r].apiKey = "test-api-key"
    /\ ValidBearer(reqs[r]) /\ reqs[r].authHeader.token.Role = "admin"
    /\ reqs[r].ctx.role = "agent-publisher"

\* the agent is the one of this record: its name and its mandatory fields
AgentOfRecord(agent, id) ==
  /\ agent.Name = services[id].Service
  /\ agent.Description = services[id].Meta["Description"]
  /\ agent.BaseURL = services[id].Meta["baseurl"]
  /\ agent.HowToUse = services[id].Meta["howtouse"]

\* C23: with a Deregister served at the same time, the second read of a Get,
\* when answered, ends the Get with 200 and the agent of a tagged record of
\* the name that the registry holds at that read, or, when it holds none,
\* with the 404 of an absent name; a Get whose reads are both answered never
\* ends with another status.
C23_GetDuringDeregister ==
  [][\A r \in ConcSlots :
       /\ (reqs[r].pc = "getServices" /\ ReadOK(r))
          => /\ reqs'[r].pc = "done"
             /\ IF \E id \in TaggedIDs : services[id].Service = reqs[r].name
                THEN /\ reqs'[r].resp.code = 200
                     /\ \E id \in TaggedIDs :
                          /\ services[id].Service = reqs[r].name
                          /\ AgentOfRecord(reqs'[r].resp.agent, id)
                ELSE reqs'[r].resp = GetNotFound
       /\ (/\ reqs[r].op = "get" /\ Ends(r)
           /\ AllAnswered(reqs'[r]))
          => reqs'[r].resp.code \in {200, 404}
    ]_vars

\* C23 happens: a Get found the agent at its first read, the Deregister of
\* the agent ended with 200, and the Get found nothing at its second read
C23_Witness ==
  \E r1, r2 \in ConcSlots :
    /\ reqs[r1].pc = "done" /\ reqs[r1].op = "get"
    /\ reqs[r1].calls = <<Call("Services", TRUE), Call("Services", TRUE)>>
    /\ reqs[r1].resp.code = 404
    /\ reqs[r2].pc = "done" /\ reqs[r2].op = "deregister"
    /\ reqs[r2].name = reqs[r1].name
    /\ reqs[r2].resp.code = 200

\* the request of r is a Deregister of a name that only records without the
\* classification tag hold, and it ends in this step without an error of an
\* unreachable or failing registry
UntaggedDeregisterEnds(r) ==
  /\ reqs[r].op = "deregister"
  /\ reqs[r].pc \in {"handler", "deregister"}
  /\ reqs'[r].pc = "done"
  /\ NamePresent(reqs[r].name) /\ NoneTagged(reqs[r].name)
  /\ reqs'[r].resp.details # RegistryError

====
